---- MODULE Spec2Model ----
(***************************************************************************)
(* Model of src/main/menu/index.js (class AppMenu): the recently-used      *)
(* documents list persisted in recently-used-documents.json and the        *)
(* per-window application menus.                                           *)
(*                                                                         *)
(* A path is a number 1..NumPaths; the number 0 stands for a falsy array   *)
(* entry of the persisted file (null or the empty string).  A menu object  *)
(* is a record of the checked and enabled states of the items the code     *)
(* looks up by id, and of the recent-documents list its template was       *)
(* built from.                                                             *)
(***************************************************************************)
EXTENDS Integers, Sequences, FiniteSets, TLC

\* ------------------------------------------------------------------ bounds
NumPaths == 14
NumWindows == 2
MaxStoreOps == 4
MaxFreshOps == 5
MaxMenuOps == 7
MaxIndicatorOps == 5

\* --------------------------------------------------------------- constants
MAX_RECENTLY_USED_DOCUMENTS == 12

NoWindow == -1

Paths == 1..NumPaths
Windows == 1..NumWindows
Platforms == {"linux", "win32", "darwin"}

VARIABLES
    platform,        \* process.platform
    file,            \* content of RECENTS_PATH
    fs,              \* what each path is on the filesystem: "none", "file", "dir"
    nativeRecent,    \* the paths registered with app.addRecentDocument
    windowMenus,     \* this.windowMenus: window id -> { menu, shortcutMap }
    activeWindowId,  \* this.activeWindowId
    appMenu,         \* the menu object Menu.getApplicationMenu() returns
    last,            \* the handler that ran last: its argument, outcome and effects
    ops              \* number of further steps the run may take

vars == <<platform, file, fs, nativeRecent, windowMenus, activeWindowId, appMenu, last, ops>>

\* ------------------------------------------------------------- JS helpers

\* Array.prototype.indexOf: the 0-based index of the first x, or -1.
IndexOf(s, x) ==
    IF \E i \in 1..Len(s) : s[i] = x
    THEN (CHOOSE i \in 1..Len(s) : s[i] = x /\ \A j \in 1..(i - 1) : s[j] # x) - 1
    ELSE -1

\* Array.prototype.splice(start, count) with start, count >= 0: the array left.
Splice(s, start, count) ==
    [i \in 1..(Len(s) - (IF start >= Len(s) THEN 0
                         ELSE IF start + count > Len(s) THEN Len(s) - start
                         ELSE count)) |->
        IF i <= start THEN s[i] ELSE s[i + count]]

\* Array.prototype.unshift(x): the array after it.
Unshift(s, x) == <<x>> \o s

\* ------------------------------------------------------------- filesystem

isFile(f) == f \in DOMAIN fs /\ fs[f] = "file"

isDirectory(f) == f \in DOMAIN fs /\ fs[f] = "dir"

\* The persisted file: absent, text JSON.parse rejects, JSON that is no array,
\* or a JSON array.
AbsentFile == [kind |-> "absent", items |-> <<>>]
GarbageFile == [kind |-> "garbage", items |-> <<>>]
NonArrayFile == [kind |-> "nonarray", items |-> <<>>]

\* JSON.stringify(recentDocuments, null, 2) as written by fs.writeFileSync.
JsonStringify(recentDocuments) == [kind |-> "array", items |-> recentDocuments]

\* KeepEntry without the isDirectory(f) of line 71.
KeepEntry_FilesOnly(f) == f # 0 /\ isFile(f)

\* The filter callback of getRecentlyUsedDocuments.
KeepEntry(f) == f # 0 /\ (isFile(f) \/ isDirectory(f))

\* TruncateToMax with the comparison of lines 49 and 73 never true.
TruncateToMax_Never(recentDocuments) == recentDocuments

\* Truncation to the maximum, as add and list both do it.
TruncateToMax(recentDocuments) ==
    IF Len(recentDocuments) > MAX_RECENTLY_USED_DOCUMENTS
    THEN Splice(recentDocuments, MAX_RECENTLY_USED_DOCUMENTS,
                Len(recentDocuments) - MAX_RECENTLY_USED_DOCUMENTS)
    ELSE recentDocuments

\* GetRecentlyUsedDocuments with JSON.parse and .filter outside the try.
GetRecentlyUsedDocuments_NoCatch ==
    IF file.kind = "absent"
    THEN [list |-> <<>>, err |-> "none", logged |-> FALSE]
    ELSE IF file.kind = "array"
    THEN [list |-> TruncateToMax(SelectSeq(file.items, KeepEntry)),
          err |-> "none", logged |-> FALSE]
    ELSE [list |-> <<>>,
          err |-> IF file.kind = "garbage" THEN "SyntaxError" ELSE "TypeError",
          logged |-> FALSE]

\* getRecentlyUsedDocuments(): the list returned, the exception that leaves
\* it ("none": it returns) and whether log.error ran.  JSON.parse throws on
\* text that is no JSON, .filter on a value that is no array; both inside try.
GetRecentlyUsedDocuments ==
    IF file.kind = "absent"
    THEN [list |-> <<>>, err |-> "none", logged |-> FALSE]
    ELSE IF file.kind = "array"
    THEN [list |-> TruncateToMax(SelectSeq(file.items, KeepEntry)),
          err |-> "none", logged |-> FALSE]
    ELSE [list |-> <<>>, err |-> "none", logged |-> TRUE]


\* -------------------------------------------------- the list kept by add

\* PromoteToFront without the splice of line 43: the old copy stays.
PromoteToFront_NoSplice(recentDocuments, filePath) ==
    IF IndexOf(recentDocuments, filePath) # 0
    THEN Unshift(recentDocuments, filePath)
    ELSE recentDocuments

\* PromoteToFront with the unshift of line 46 taken whatever the index.
PromoteToFront_AlwaysUnshift(recentDocuments, filePath) ==
    LET index == IndexOf(recentDocuments, filePath)
        spliced == IF index > 0 THEN Splice(recentDocuments, index, 1) ELSE recentDocuments
    IN  Unshift(spliced, filePath)

\* Lines 40-47: the loaded list with filePath promoted to the front.
PromoteToFront(recentDocuments, filePath) ==
    LET index == IndexOf(recentDocuments, filePath)
        spliced == IF index > 0 THEN Splice(recentDocuments, index, 1) ELSE recentDocuments
    IN  IF index # 0 THEN Unshift(spliced, filePath) ELSE spliced

\* NeedSave with line 41 reading index > 0: a new path is not saved.
NeedSave_OnlyWhenMoved(recentDocuments, filePath) ==
    \/ IndexOf(recentDocuments, filePath) > 0
    \/ Len(PromoteToFront(recentDocuments, filePath)) > MAX_RECENTLY_USED_DOCUMENTS

\* Lines 41 and 49-50: whether add writes the file.
NeedSave(recentDocuments, filePath) ==
    \/ IndexOf(recentDocuments, filePath) # 0
    \/ Len(PromoteToFront(recentDocuments, filePath)) > MAX_RECENTLY_USED_DOCUMENTS

\* ------------------------------------------------------------------ menus

ToggleIds == {"sourceCodeModeMenuItem", "typewriterModeMenuItem", "focusModeMenuItem",
              "sideBarMenuItem", "tabBarMenuItem"}
IndicatorIds == {"autoSaveMenuItem", "alwaysOnTopMenuItem",
                 "crlfLineEndingMenuEntry", "lfLineEndingMenuEntry"}
ThemeIds == {"dark", "light"}
ItemIds == ToggleIds \cup IndicatorIds \cup ThemeIds

\* Menu.buildFromTemplate(configureMenu(keybindings, preferences, recentUsedDocuments)):
\* a fresh menu object with every item unchecked and enabled.
ConfigureMenu(recentUsedDocuments) ==
    [checked |-> [id \in ItemIds |-> FALSE],
     enabled |-> [id \in ItemIds |-> TRUE],
     recent  |-> recentUsedDocuments]

\* An optional argument: undefined, or a value.
Undefined == [given |-> FALSE, list |-> <<>>]
Given(list) == [given |-> TRUE, list |-> list]

\* IsMissing taking an empty array for a missing argument.
IsMissing_EmptyIsMissing(recentUsedDocuments) ==
    ~recentUsedDocuments.given \/ recentUsedDocuments.list = <<>>

\* !recentUsedDocuments: true of undefined only, an empty array is truthy.
IsMissing(recentUsedDocuments) == ~recentUsedDocuments.given

\* buildDefaultMenu(createShortcutMap, recentUsedDocuments).
BuildDefaultMenu(createShortcutMap, recentUsedDocuments) ==
    LET got == GetRecentlyUsedDocuments
        missing == IsMissing(recentUsedDocuments)
        docs == IF missing THEN got.list ELSE recentUsedDocuments.list
    IN  [shortcutMap |-> createShortcutMap,
         menu |-> ConfigureMenu(docs),
         err |-> IF missing THEN got.err ELSE "none",
         logged |-> missing /\ got.logged]

\* updateMenuItem(oldMenus, newMenus, id): newMenus after it.
UpdateMenuItem(oldMenus, newMenus, id) ==
    [newMenus EXCEPT !.checked[id] = oldMenus.checked[id]]

\* The menu object appMenu refers to (when it is not null).
CurrentMenu ==
    IF appMenu.kind = "window" THEN windowMenus[appMenu.id].menu ELSE appMenu.menu

NullMenu == [kind |-> "null", id |-> NoWindow, menu |-> ConfigureMenu(<<>>)]
MenuOfWindow(w) == [kind |-> "window", id |-> w, menu |-> ConfigureMenu(<<>>)]
DetachedMenu(menu) == [kind |-> "detached", id |-> NoWindow, menu |-> menu]

\* UpdateMenuItemSafe that never looks at the visible menu.
UpdateMenuItemSafe_AlwaysDefault(newMenus, id, defaultValue) ==
    [newMenus EXCEPT !.checked[id] = defaultValue]

\* updateMenuItemSafe(oldMenus, newMenus, id, defaultValue) with
\* oldMenus = Menu.getApplicationMenu(): newMenus after it.
UpdateMenuItemSafe(newMenus, id, defaultValue) ==
    LET checked == IF appMenu.kind # "null" /\ id \in DOMAIN CurrentMenu.checked
                   THEN CurrentMenu.checked[id]
                   ELSE defaultValue
    IN  [newMenus EXCEPT !.checked[id] = checked]

\* appMenu once the objects stored for the windows in `replaced` are no longer
\* the ones the map holds: what it referred to lives on outside the map.
KeepReference(replaced) ==
    IF appMenu.kind = "window" /\ appMenu.id \in replaced
    THEN DetachedMenu(windowMenus[appMenu.id].menu)
    ELSE appMenu

\* CarryOver reading the five items from the visible menu (the active
\* window's) instead of the window's own old tree.
CarryOver_FromVisibleMenu(oldMenu, newMenu) ==
    LET source == IF appMenu.kind # "null" THEN CurrentMenu ELSE oldMenu
    IN  [newMenu EXCEPT !.checked =
            [id \in ItemIds |-> IF id \in ToggleIds THEN source.checked[id] ELSE @[id]]]

\* Lines 179-183: the new tree of one window, given its old one.
CarryOver(oldMenu, newMenu) ==
    UpdateMenuItem(oldMenu,
      UpdateMenuItem(oldMenu,
        UpdateMenuItem(oldMenu,
          UpdateMenuItem(oldMenu,
            UpdateMenuItem(oldMenu, newMenu, "sourceCodeModeMenuItem"),
            "typewriterModeMenuItem"),
          "focusModeMenuItem"),
        "sideBarMenuItem"),
      "tabBarMenuItem")

\* AppMenuAfterRebuild without lines 189-192.
AppMenuAfterRebuild_NotInstalled == KeepReference(DOMAIN windowMenus)

\* Lines 186-192: the application menu once every window has its new tree; the
\* active window's new tree is installed, any other old tree stays referenced.
AppMenuAfterRebuild ==
    IF activeWindowId \in DOMAIN windowMenus
    THEN MenuOfWindow(activeWindowId)
    ELSE KeepReference(DOMAIN windowMenus)

\* updateAppMenu(recentUsedDocuments): the map and the application menu after
\* it, the exception that leaves it and whether log.error ran.
UpdateAppMenu(recentUsedDocuments) ==
    LET got == GetRecentlyUsedDocuments
        missing == IsMissing(recentUsedDocuments)
        docs == IF missing THEN got.list ELSE recentUsedDocuments.list
    IN  [windowMenus |->
            [key \in DOMAIN windowMenus |->
                [windowMenus[key] EXCEPT
                    !.menu = CarryOver(windowMenus[key].menu,
                                       BuildDefaultMenu(FALSE, Given(docs)).menu)]],
         appMenu |-> AppMenuAfterRebuild,
         err |-> IF missing THEN got.err ELSE "none",
         logged |-> missing /\ got.logged]

\* getWindowMenuById(windowId): the outcome.  Destructuring the undefined that
\* Map.get returns for an unknown id (line 129) throws a TypeError before line
\* 130 is reached; lines 130-133 need a stored entry whose menu is falsy, and
\* every entry addEditorMenu and updateAppMenu store holds a menu object.
GetWindowMenuById(windowId) ==
    IF windowId \notin DOMAIN windowMenus
    THEN [err |-> "TypeError", logged |-> FALSE]
    ELSE [err |-> "none", logged |-> FALSE]

\* --------------------------------------------------------------- handlers

NoOp == [op |-> "none", arg |-> 0, err |-> "none", logged |-> FALSE,
         listBefore |-> <<>>, newList |-> <<>>, wrote |-> FALSE, fileBefore |-> AbsentFile,
         value |-> "", checkedBefore |-> [id \in ItemIds |-> FALSE]]

\* The record of a handler run on the current state.
Ran(op, arg) == [NoOp EXCEPT !.op = op, !.arg = arg, !.fileBefore = file]

\* The record of a handler an exception left before it changed anything.
Threw(op, arg, err, logged) == [Ran(op, arg) EXCEPT !.err = err, !.logged = logged]

Budget == ops > 0 /\ ops' = ops - 1

isOsxOrWindows == platform \in {"darwin", "win32"}
\* isOsx taken for isOsxOrWindows.
isOsx_OrWindows == platform \in {"darwin", "win32"}

isOsx == platform = "darwin"

\* addRecentlyUsedDocument(filePath); writeOk: whether ensureDirSync and
\* fs.writeFileSync succeed.
AddRecentlyUsedDocument(filePath, writeOk) ==
    /\ Budget
    /\ nativeRecent' = IF isOsxOrWindows THEN nativeRecent \cup {filePath} ELSE nativeRecent
    /\ UNCHANGED <<platform, fs, activeWindowId>>
    /\ LET got == GetRecentlyUsedDocuments
           recentDocuments == TruncateToMax(PromoteToFront(got.list, filePath))
           needSave == NeedSave(got.list, filePath)
           updated == UpdateAppMenu(Given(recentDocuments))
       IN  IF isOsx
           THEN /\ writeOk
                /\ last' = Ran("add", filePath)
                /\ UNCHANGED <<file, windowMenus, appMenu>>
           ELSE IF got.err # "none"
           THEN /\ writeOk
                /\ last' = Threw("add", filePath, got.err, got.logged)
                /\ UNCHANGED <<file, windowMenus, appMenu>>
           ELSE /\ needSave \/ writeOk
                /\ windowMenus' = updated.windowMenus
                /\ appMenu' = updated.appMenu
                /\ file' = IF needSave /\ writeOk THEN JsonStringify(recentDocuments) ELSE file
                /\ last' = [Ran("add", filePath) EXCEPT
                                !.err = IF needSave /\ ~writeOk THEN "WriteError" ELSE "none",
                                !.logged = got.logged,
                                !.listBefore = got.list,
                                !.newList = recentDocuments,
                                !.wrote = needSave]

\* An external call of getRecentlyUsedDocuments().
ListRecentlyUsedDocuments ==
    /\ Budget
    /\ LET got == GetRecentlyUsedDocuments
       IN  last' = [Ran("list", 0) EXCEPT !.err = got.err, !.logged = got.logged,
                                          !.newList = got.list]
    /\ UNCHANGED <<platform, file, fs, nativeRecent, windowMenus, activeWindowId, appMenu>>

\* clearRecentlyUsedDocuments().
ClearRecentlyUsedDocuments(writeOk) ==
    /\ Budget
    /\ nativeRecent' = IF isOsxOrWindows THEN {} ELSE nativeRecent
    /\ UNCHANGED <<platform, fs, activeWindowId>>
    /\ IF isOsx
       THEN /\ writeOk
            /\ last' = Ran("clear", 0)
            /\ UNCHANGED <<file, windowMenus, appMenu>>
       ELSE LET recentDocuments == <<>>
                updated == UpdateAppMenu(Given(recentDocuments))
            IN  /\ windowMenus' = updated.windowMenus
                /\ appMenu' = updated.appMenu
                /\ file' = IF writeOk THEN JsonStringify(recentDocuments) ELSE file
                /\ last' = [Ran("clear", 0) EXCEPT
                                !.err = IF writeOk THEN "none" ELSE "WriteError",
                                !.wrote = TRUE]

\* ApplyCoupling that forgets the focus-mode item (line 114).
ApplyCoupling_TypewriterOnly(menu) ==
    IF menu.checked["sourceCodeModeMenuItem"]
    THEN [menu EXCEPT !.enabled["typewriterModeMenuItem"] = FALSE]
    ELSE menu

\* Lines 107-115: in source-code mode the typewriter-mode and focus-mode items
\* of the new tree are disabled.
ApplyCoupling(menu) ==
    LET isSourceMode == menu.checked["sourceCodeModeMenuItem"]
    IN  IF isSourceMode
        THEN [menu EXCEPT !.enabled["typewriterModeMenuItem"] = FALSE,
                          !.enabled["focusModeMenuItem"] = FALSE]
        ELSE menu

\* addEditorMenu(window) for a window that has no menu yet (Electron gives
\* every BrowserWindow an id of its own).
AddEditorMenu(id) ==
    /\ Budget
    /\ id \notin DOMAIN windowMenus
    /\ LET built == BuildDefaultMenu(TRUE, Undefined)
           carried == UpdateMenuItemSafe(
                          UpdateMenuItemSafe(built.menu, "sourceCodeModeMenuItem", FALSE),
                          "typewriterModeMenuItem", FALSE)
           menu == ApplyCoupling(carried)
       IN  IF built.err # "none"
           THEN /\ last' = Threw("create", id, built.err, built.logged)
                /\ UNCHANGED <<windowMenus, appMenu>>
           ELSE /\ windowMenus' = [key \in DOMAIN windowMenus \cup {id} |->
                                     IF key = id
                                     THEN [menu |-> menu, shortcutMap |-> built.shortcutMap]
                                     ELSE windowMenus[key]]
                /\ appMenu' = KeepReference({id})
                /\ last' = [Ran("create", id) EXCEPT !.logged = built.logged,
                                                     !.newList = built.menu.recent]
    /\ UNCHANGED <<platform, file, fs, nativeRecent, activeWindowId>>

\* RemoveWindowMenu without the test of line 123: the active window is
\* always forgotten.
RemoveWindowMenu_AlwaysResets(windowId) ==
    /\ Budget
    /\ windowMenus' = [key \in DOMAIN windowMenus \ {windowId} |-> windowMenus[key]]
    /\ appMenu' = KeepReference({windowId})
    /\ activeWindowId' = NoWindow
    /\ last' = Ran("remove", windowId)
    /\ UNCHANGED <<platform, file, fs, nativeRecent>>

\* removeWindowMenu(windowId).
RemoveWindowMenu(windowId) ==
    /\ Budget
    /\ windowMenus' = [key \in DOMAIN windowMenus \ {windowId} |-> windowMenus[key]]
    /\ appMenu' = KeepReference({windowId})
    /\ activeWindowId' = IF activeWindowId = windowId THEN NoWindow ELSE activeWindowId
    /\ last' = Ran("remove", windowId)
    /\ UNCHANGED <<platform, file, fs, nativeRecent>>

\* setActiveWindow(windowId).
SetActiveWindow(windowId) ==
    /\ Budget
    /\ LET found == GetWindowMenuById(windowId)
       IN  IF activeWindowId = windowId
           THEN /\ last' = Ran("activate", windowId)
                /\ UNCHANGED <<appMenu, activeWindowId>>
           ELSE IF found.err # "none"
           THEN /\ last' = Threw("activate", windowId, found.err, found.logged)
                /\ UNCHANGED <<appMenu, activeWindowId>>
           ELSE /\ appMenu' = MenuOfWindow(windowId)
                /\ activeWindowId' = windowId
                /\ last' = Ran("activate", windowId)
    /\ UNCHANGED <<platform, file, fs, nativeRecent, windowMenus>>

\* An external call of updateAppMenu() with no argument.
RebuildAllMenus ==
    /\ Budget
    /\ LET updated == UpdateAppMenu(Undefined)
       IN  IF updated.err # "none"
           THEN /\ last' = Threw("rebuild", 0, updated.err, updated.logged)
                /\ UNCHANGED <<windowMenus, appMenu>>
           ELSE /\ windowMenus' = updated.windowMenus
                /\ appMenu' = updated.appMenu
                /\ last' = [Ran("rebuild", 0) EXCEPT
                                !.logged = updated.logged,
                                !.newList = GetRecentlyUsedDocuments.list]
    /\ UNCHANGED <<platform, file, fs, nativeRecent, activeWindowId>>

\* The rest of the application flips a checkbox item of the visible menu,
\* which it reaches through getMenuItemById.
ClickMenuItem(id) ==
    /\ Budget
    /\ appMenu.kind # "null"
    /\ IF appMenu.kind = "window"
       THEN /\ windowMenus' = [windowMenus EXCEPT
                                 ![appMenu.id].menu.checked[id] = ~CurrentMenu.checked[id]]
            /\ UNCHANGED appMenu
       ELSE /\ appMenu' = [appMenu EXCEPT !.menu.checked[id] = ~CurrentMenu.checked[id]]
            /\ UNCHANGED windowMenus
    /\ last' = Ran("click", 0)
    /\ UNCHANGED <<platform, file, fs, nativeRecent, activeWindowId>>

\* --------------------------------------------------------- indicator setters

\* VisibleMenuWith writing the checked states into every window's tree.
VisibleMenuWith_AllWindows(checked) ==
    [windowMenus |-> [key \in DOMAIN windowMenus |->
                        [windowMenus[key] EXCEPT !.menu.checked = checked]],
     appMenu |-> IF appMenu.kind = "detached"
                 THEN [appMenu EXCEPT !.menu.checked = checked]
                 ELSE appMenu]

\* The map and the application menu once the items of the menu object
\* Menu.getApplicationMenu() returns have the checked states `checked`: the
\* object is the one stored for a window, or one no longer in the map.
VisibleMenuWith(checked) ==
    IF appMenu.kind = "window"
    THEN [windowMenus |-> [windowMenus EXCEPT ![appMenu.id].menu.checked = checked],
          appMenu |-> appMenu]
    ELSE [windowMenus |-> windowMenus,
          appMenu |-> [appMenu EXCEPT !.menu.checked = checked]]

\* updateLineEndingMenu(lineEnding): the checked states after it.
UpdateLineEndingMenu(checked, lineEnding) ==
    IF lineEnding = "crlf"
    THEN [checked EXCEPT !["crlfLineEndingMenuEntry"] = TRUE]
    ELSE [checked EXCEPT !["lfLineEndingMenuEntry"] = TRUE]

\* updateAutoSaveMenu(autoSave): the checked states after it.
UpdateAutoSaveMenu(checked, autoSave) ==
    [checked EXCEPT !["autoSaveMenuItem"] = autoSave]

\* UpdateThemeMenu without the clearing pass of line 269.
UpdateThemeMenu_NoClear(checked, theme) ==
    [id \in DOMAIN checked |-> IF id \in ThemeIds /\ id = theme THEN TRUE ELSE checked[id]]

\* updateThemeMenu(theme): the checked states after it; the items of
\* themeMenu.submenu are those with an id in ThemeIds.
UpdateThemeMenu(checked, theme) ==
    LET cleared == [id \in DOMAIN checked |-> IF id \in ThemeIds THEN FALSE ELSE checked[id]]
    IN  [id \in DOMAIN checked |->
            IF id \in ThemeIds /\ id # "" /\ id = theme THEN TRUE ELSE cleared[id]]

\* AppMenu.updateAlwaysOnTopMenu(flag): the checked states after it.
UpdateAlwaysOnTopMenu(checked, flag) ==
    [checked EXCEPT !["alwaysOnTopMenuItem"] = flag]

BoolText(flag) == IF flag THEN "true" ELSE "false"

\* A setter called with `value`: with no application menu,
\* menus.getMenuItemById throws a TypeError on null; otherwise the items of the
\* visible menu get the checked states `checked`.
IndicatorSetter(op, value, checked) ==
    /\ Budget
    /\ IF appMenu.kind = "null"
       THEN /\ last' = [Threw(op, 0, "TypeError", FALSE) EXCEPT !.value = value]
            /\ UNCHANGED <<windowMenus, appMenu>>
       ELSE /\ windowMenus' = VisibleMenuWith(checked).windowMenus
            /\ appMenu' = VisibleMenuWith(checked).appMenu
            /\ last' = [Ran(op, 0) EXCEPT !.value = value,
                                          !.checkedBefore = CurrentMenu.checked]
    /\ UNCHANGED <<platform, file, fs, nativeRecent, activeWindowId>>

\* AppMenu.updateLineEndingMenu(lineEnding) / the exported updateLineEndingMenu.
SetLineEndingIndicator(lineEnding) ==
    IndicatorSetter("lineEnding", lineEnding,
                    UpdateLineEndingMenu(CurrentMenu.checked, lineEnding))

\* The exported updateAutoSaveMenu(autoSave).
SetAutoSaveIndicator(autoSave) ==
    IndicatorSetter("autoSave", BoolText(autoSave),
                    UpdateAutoSaveMenu(CurrentMenu.checked, autoSave))

\* The exported updateThemeMenu(theme).
SetThemeIndicator(theme) ==
    IndicatorSetter("theme", theme, UpdateThemeMenu(CurrentMenu.checked, theme))

\* AppMenu.updateAlwaysOnTopMenu(flag).
SetAlwaysOnTopIndicator(flag) ==
    IndicatorSetter("alwaysOnTop", BoolText(flag),
                    UpdateAlwaysOnTopMenu(CurrentMenu.checked, flag))

\* A file or directory is deleted behind the program's back.
Unlink(f) ==
    /\ Budget
    /\ fs[f] # "none"
    /\ fs' = [fs EXCEPT ![f] = "none"]
    /\ last' = Ran("unlink", f)
    /\ UNCHANGED <<platform, file, nativeRecent, windowMenus, activeWindowId, appMenu>>

\* ------------------------------------------------------------------ specs

Descending(n) == [i \in 1..n |-> n + 1 - i]

\* The filesystem at start: path 2 is a directory, the last path does not exist.
InitialFs == [f \in Paths |-> IF f = 2 THEN "dir" ELSE IF f = NumPaths THEN "none" ELSE "file"]

\* After construction (lines 16-31) there is no window menu and no active window.
Constructed ==
    /\ platform \in Platforms
    /\ fs = InitialFs
    /\ nativeRecent = {}
    /\ windowMenus = << >>
    /\ activeWindowId = NoWindow
    /\ appMenu = NullMenu
    /\ last = NoOp

\* Persisted files the program may find: none, unreadable ones, lists it wrote
\* itself, and lists an earlier version or an editor left behind.
StoreFiles ==
    {AbsentFile, GarbageFile, NonArrayFile,
     JsonStringify(<<>>),
     JsonStringify(Descending(MAX_RECENTLY_USED_DOCUMENTS)),
     JsonStringify(Descending(MAX_RECENTLY_USED_DOCUMENTS + 1)),
     JsonStringify(<<3, 2, 0, 3, 2>>)}

StoreAddPaths == {2, 3, MAX_RECENTLY_USED_DOCUMENTS, MAX_RECENTLY_USED_DOCUMENTS + 1, NumPaths}
StoreUnlinkPaths == {3, MAX_RECENTLY_USED_DOCUMENTS}

InitStore == Constructed /\ file \in StoreFiles /\ ops = MaxStoreOps

NextStore ==
    \/ \E f \in StoreAddPaths, writeOk \in BOOLEAN : AddRecentlyUsedDocument(f, writeOk)
    \/ \E writeOk \in BOOLEAN : ClearRecentlyUsedDocuments(writeOk)
    \/ ListRecentlyUsedDocuments
    \/ \E id \in {1} : AddEditorMenu(id)
    \/ RebuildAllMenus
    \/ \E f \in StoreUnlinkPaths : Unlink(f)

SpecStore == InitStore /\ [][NextStore]_vars

\* The same program started on an absent or empty persisted file.
InitFresh == Constructed /\ file \in {AbsentFile, JsonStringify(<<>>)} /\ ops = MaxFreshOps

SpecFresh == InitFresh /\ [][NextStore]_vars

MenuFiles == {AbsentFile, JsonStringify(<<2, 1>>)}
MenuAddPaths == {3}

InitMenu == Constructed /\ file \in MenuFiles /\ ops = MaxMenuOps

NextMenu ==
    \/ \E f \in MenuAddPaths : AddRecentlyUsedDocument(f, TRUE)
    \/ ClearRecentlyUsedDocuments(TRUE)
    \/ \E id \in Windows : AddEditorMenu(id)
    \/ \E id \in Windows : RemoveWindowMenu(id)
    \/ \E id \in Windows : SetActiveWindow(id)
    \/ RebuildAllMenus
    \/ \E id \in ToggleIds : ClickMenuItem(id)

SpecMenu == InitMenu /\ [][NextMenu]_vars

\* The window menus together with the indicator setters.
LineEndings == {"crlf", "lf"}
ThemeNames == ThemeIds \cup {"ulysses"}

InitIndicator ==
    Constructed /\ file = JsonStringify(<<2, 1>>) /\ ops = MaxIndicatorOps

NextIndicator ==
    \/ \E f \in MenuAddPaths : AddRecentlyUsedDocument(f, TRUE)
    \/ \E id \in Windows : AddEditorMenu(id)
    \/ \E id \in Windows : RemoveWindowMenu(id)
    \/ \E id \in Windows : SetActiveWindow(id)
    \/ RebuildAllMenus
    \/ \E lineEnding \in LineEndings : SetLineEndingIndicator(lineEnding)
    \/ \E autoSave \in BOOLEAN : SetAutoSaveIndicator(autoSave)
    \/ \E theme \in ThemeNames : SetThemeIndicator(theme)
    \/ \E flag \in BOOLEAN : SetAlwaysOnTopIndicator(flag)

SpecIndicator == InitIndicator /\ [][NextIndicator]_vars

\* ------------------------------------------------ vocabulary of the claims

\* What list() returns in the current state.
CurrentList == GetRecentlyUsedDocuments.list

FirstN(s, n) == IF Len(s) <= n THEN s ELSE SubSeq(s, 1, n)

\* The entries of s other than x, in their order.
Without(s, x) == SelectSeq(s, LAMBDA e : e # x)

RECURSIVE RemoveFirst(_, _)
\* s with its first occurrence of x removed.
RemoveFirst(s, x) ==
    IF s = <<>> THEN <<>>
    ELSE IF Head(s) = x THEN Tail(s)
    ELSE <<Head(s)>> \o RemoveFirst(Tail(s), x)

Occurrences(s, x) == Cardinality({i \in 1..Len(s) : s[i] = x})

NoDuplicates(s) == \A i, j \in 1..Len(s) : s[i] = s[j] => i = j

ExistsOnDisk(f) == f \in Paths /\ fs[f] # "none"

\* The last handler was add, on a platform that keeps the explicit list, and
\* it returned (no exception left it).
AddedExplicitly == last.op = "add" /\ platform # "darwin" /\ last.err = "none"

\* ---------------------------------------------------------------------- C1

\* C1 as stated: after add(p) has returned on a platform other than macOS,
\* list() is p followed by the entries of the previous list other than p, in their order,
\* truncated to 12 entries.
C1_AddLeavesPromotedList ==
    AddedExplicitly =>
        CurrentList = FirstN(<<last.arg>> \o Without(last.listBefore, last.arg),
                             MAX_RECENTLY_USED_DOCUMENTS)

\* C1 amended: when p exists on the filesystem and add(p) returns without an
\* exception, list() is p followed by the previous list without its first
\* occurrence of p, truncated to 12 entries; that is p followed by the entries
\* other than p whenever the previous list held p at most once.
C1_AddLeavesPromotedExistingPath ==
    (AddedExplicitly /\ ExistsOnDisk(last.arg)) =>
        /\ CurrentList = FirstN(<<last.arg>> \o RemoveFirst(last.listBefore, last.arg),
                                MAX_RECENTLY_USED_DOCUMENTS)
        /\ Occurrences(last.listBefore, last.arg) <= 1 =>
               CurrentList = FirstN(<<last.arg>> \o Without(last.listBefore, last.arg),
                                    MAX_RECENTLY_USED_DOCUMENTS)

\* A thirteenth distinct path was added to a full list: the oldest is evicted.
C1_Witness ==
    /\ AddedExplicitly
    /\ last.arg = MAX_RECENTLY_USED_DOCUMENTS + 1
    /\ last.listBefore = Descending(MAX_RECENTLY_USED_DOCUMENTS)
    /\ CurrentList = [i \in 1..MAX_RECENTLY_USED_DOCUMENTS |->
                        MAX_RECENTLY_USED_DOCUMENTS + 2 - i]

\* ---------------------------------------------------------------------- C2

C3_AtMostTwelve ==
    /\ Len(CurrentList) <= MAX_RECENTLY_USED_DOCUMENTS
    /\ (last.op \in {"add", "clear"} /\ last.wrote /\ last.err = "none") =>
          /\ file.kind = "array"
          /\ Len(file.items) <= MAX_RECENTLY_USED_DOCUMENTS
    /\ last.op \in {"add", "clear", "list", "create", "rebuild"} =>
          Len(last.newList) <= MAX_RECENTLY_USED_DOCUMENTS
    /\ \A id \in DOMAIN windowMenus :
          Len(windowMenus[id].menu.recent) <= MAX_RECENTLY_USED_DOCUMENTS

\* The persisted file holds 13 entries that all exist; list() returned 12 of
\* them and a menu was built from 12.
C3_Witness ==
    /\ last.op = "list"
    /\ Len(file.items) > MAX_RECENTLY_USED_DOCUMENTS
    /\ \A i \in 1..Len(file.items) : ExistsOnDisk(file.items[i])
    /\ Len(last.newList) = MAX_RECENTLY_USED_DOCUMENTS
    /\ \E id \in DOMAIN windowMenus :
          Len(windowMenus[id].menu.recent) = MAX_RECENTLY_USED_DOCUMENTS

\* ---------------------------------------------------------------------- C4

\* C4: add(p) attempts the persistence write exactly when the list it hands on
\* differs from the list it loaded (a removal, an insertion or a truncation
\* happened); with p at position 0 of the loaded list there is no write and
\* the file is unchanged; after a write that succeeded the file holds exactly
\* the new list.
C4_WriteIffStructuralChange ==
    /\ (last.op = "add" /\ platform # "darwin" /\ last.err \in {"none", "WriteError"}) =>
          /\ last.wrote <=> (last.newList # last.listBefore)
          /\ (last.listBefore # <<>> /\ last.listBefore[1] = last.arg) => ~last.wrote
          /\ ~last.wrote => file = last.fileBefore
          /\ last.err = "WriteError" => last.wrote /\ file = last.fileBefore
    /\ (AddedExplicitly /\ last.wrote) =>
          file = [kind |-> "array", items |-> last.newList]

\* add(p) found p at position 0 of a persisted file of 13 entries: nothing is
\* written, not even the truncated list.
C4_Witness ==
    /\ AddedExplicitly
    /\ last.listBefore # <<>> /\ last.listBefore[1] = last.arg
    /\ ~last.wrote
    /\ Len(file.items) > MAX_RECENTLY_USED_DOCUMENTS

\* ---------------------------------------------------------------------- C5

RECURSIVE ExistingEntries(_)
\* The entries of s that are a file or a directory now, in the order of s.
ExistingEntries(s) ==
    IF s = <<>> THEN <<>>
    ELSE IF ExistsOnDisk(Head(s)) THEN <<Head(s)>> \o ExistingEntries(Tail(s))
    ELSE ExistingEntries(Tail(s))

\* C5: list() returns exactly the entries of the persisted array that exist on
\* the filesystem now, in their persisted order, truncated to 12: a deleted
\* entry is absent, an existing one is neither dropped nor moved.
C5_ListIsExistingEntriesInOrder ==
    /\ file.kind = "array" =>
          CurrentList = FirstN(ExistingEntries(file.items), MAX_RECENTLY_USED_DOCUMENTS)
    /\ (last.op = "list" /\ last.fileBefore.kind = "array") =>
          /\ last.err = "none"
          /\ last.newList = FirstN(ExistingEntries(last.fileBefore.items),
                                   MAX_RECENTLY_USED_DOCUMENTS)

\* list() ran on a persisted list one entry of which was deleted since, and
\* which also holds a directory.
C5_Witness ==
    /\ last.op = "list"
    /\ \E i \in 1..Len(file.items) :
          /\ file.items[i] \in Paths
          /\ InitialFs[file.items[i]] # "none"
          /\ fs[file.items[i]] = "none"
          /\ Occurrences(last.newList, file.items[i]) = 0
    /\ \E i \in 1..Len(last.newList) : fs[last.newList[i]] = "dir"
    /\ Len(last.newList) = Len(file.items) - 1

\* ---------------------------------------------------------------------- C6

InvalidKinds == {"garbage", "nonarray"}

\* C6: on a persisted file that is unparsable or no array, list() returns the
\* empty list, logs, and raises nothing; neither do add, createWindowMenu and
\* rebuildAllMenus, which go on with the empty list (add may still fail on its
\* own write).  On a missing file list() is empty too, with nothing logged.
C6_InvalidFileIsEmptyList ==
    /\ file.kind \in InvalidKinds \cup {"absent"} => CurrentList = <<>>
    /\ (last.op \in {"list", "create", "rebuild"} /\ last.fileBefore.kind \in InvalidKinds) =>
          /\ last.err = "none"
          /\ last.logged
          /\ last.newList = <<>>
    /\ (last.op \in {"list", "create", "rebuild"} /\ last.fileBefore.kind = "absent") =>
          /\ last.err = "none"
          /\ ~last.logged
          /\ last.newList = <<>>
    /\ (last.op = "add" /\ platform # "darwin" /\ last.fileBefore.kind \in InvalidKinds) =>
          /\ last.err \in {"none", "WriteError"}
          /\ last.logged
          /\ last.listBefore = <<>>
          /\ last.newList = <<last.arg>>
    /\ (last.op \in {"create", "rebuild"} /\ file.kind \in InvalidKinds \cup {"absent"}) =>
          \A id \in DOMAIN windowMenus : windowMenus[id].menu.recent = <<>>

\* list() ran on an unparsable file after a window menu was built from it.
C6_Witness ==
    /\ last.op = "list"
    /\ last.fileBefore.kind = "garbage"
    /\ last.logged /\ last.err = "none" /\ last.newList = <<>>
    /\ DOMAIN windowMenus # {}

\* ---------------------------------------------------------------------- C7

\* What clear() leaves behind according to C7.
Cleared ==
    /\ CurrentList = <<>>
    /\ file = [kind |-> "array", items |-> <<>>]
    /\ \A id \in DOMAIN windowMenus : windowMenus[id].menu.recent = <<>>

\* C7 as stated: from any state, once clear() has returned, list() is empty,
\* the persisted file is the empty array and every window snapshot was rebuilt
\* with an empty recent-documents list.
C7_ClearEmptiesEverything ==
    (last.op = "clear" /\ last.err = "none") => Cleared

\* C7 amended: the same on a platform other than macOS.
C7_ClearEmptiesExplicitList ==
    (last.op = "clear" /\ last.err = "none" /\ platform # "darwin") => Cleared

\* clear() ran on a persisted list of 12 entries with a window menu built from it.
C7_Witness ==
    /\ last.op = "clear" /\ last.err = "none" /\ platform = "win32"
    /\ Len(last.fileBefore.items) = MAX_RECENTLY_USED_DOCUMENTS
    /\ DOMAIN windowMenus # {}
    /\ Cleared

\* ---------------------------------------------------------------------- C8

\* C8: activateWindow(w) for a window with no stored snapshot fails with the
\* error 'Cannot find window menu for id w', logged before it is raised.
C8_ActivateUnknownRaisesLookupError ==
    (last.op = "activate" /\ last.arg \notin DOMAIN windowMenus) =>
        /\ last.err = "CannotFindWindowMenu"
        /\ last.logged

\* ---------------------------------------------------------------------- C9

\* C9: whenever activeWindowId names a window, that window has a stored
\* snapshot and the application menu is that snapshot's menu object.
C9_ActiveSnapshotIsVisibleMenu ==
    activeWindowId # NoWindow =>
        /\ activeWindowId \in DOMAIN windowMenus
        /\ appMenu = MenuOfWindow(activeWindowId)

\* Two windows have menus, the second is active, and add has just rebuilt both
\* trees: the visible menu is the second window's new tree.
C9_Witness ==
    /\ DOMAIN windowMenus = {1, 2}
    /\ activeWindowId = 2
    /\ appMenu = MenuOfWindow(2)
    /\ last.op = "add" /\ platform = "linux"
    /\ windowMenus[2].menu.recent = last.newList
    /\ Len(last.newList) > 0

\* --------------------------------------------------------------------- C10

\* A step that rebuilt every window's menu tree.
RebuildStep == last'.op \in {"rebuild", "add", "clear"} /\ last'.err = "none"

\* C10: a rebuild of all menus (by rebuildAllMenus, add or clear) keeps the
\* windows and gives each of them a tree whose source-code-mode,
\* typewriter-mode, focus-mode, sidebar and tab-bar checked states are those
\* of its own tree before the step.
C10_RebuildKeepsOwnToggles ==
    [][RebuildStep =>
          /\ DOMAIN windowMenus' = DOMAIN windowMenus
          /\ \A id \in DOMAIN windowMenus : \A item \in ToggleIds :
                windowMenus'[id].menu.checked[item] = windowMenus[id].menu.checked[item]
      ]_vars

\* Window 1 has the sidebar checked, window 2 the tab bar, each not the other,
\* and add has just rebuilt both trees with the new list.
C10_Witness ==
    /\ last.op = "add" /\ platform = "linux" /\ last.err = "none"
    /\ DOMAIN windowMenus = {1, 2}
    /\ windowMenus[1].menu.checked["sideBarMenuItem"]
    /\ ~windowMenus[1].menu.checked["tabBarMenuItem"]
    /\ ~windowMenus[2].menu.checked["sideBarMenuItem"]
    /\ windowMenus[2].menu.checked["tabBarMenuItem"]
    /\ \A id \in {1, 2} : windowMenus[id].menu.recent = last.newList
    /\ last.newList # last.listBefore

\* --------------------------------------------------------------------- C11

\* The flags the rebuild is to keep: the five toggles, auto-save and always
\* on top.
SessionFlagIds == ToggleIds \cup {"autoSaveMenuItem", "alwaysOnTopMenuItem"}

\* C11: a rebuild of all menus (by rebuildAllMenus, add or clear) gives every
\* window a tree in which each toggle flag, auto-save and always-on-top
\* included, has the checked value it had in that window's tree before the
\* step.
C11_RebuildKeepsEveryFlag ==
    [][RebuildStep =>
          \A id \in DOMAIN windowMenus \cap DOMAIN windowMenus' :
              \A item \in SessionFlagIds :
                  windowMenus'[id].menu.checked[item] = windowMenus[id].menu.checked[item]
      ]_vars

\* --------------------------------------------------------------------- C12

\* A step in which addEditorMenu stored the tree of a new window.
CreateStep == last'.op = "create" /\ last'.err = "none"

\* The checked state addEditorMenu is to carry for an item: that of the
\* visible menu, false when there is none.
VisibleChecked(item) == IF appMenu.kind = "null" THEN FALSE ELSE CurrentMenu.checked[item]

\* C12: addEditorMenu stores for the new window a tree whose source-code-mode
\* and typewriter-mode checked states are those of the menu visible when it
\* is called (false when no menu is visible), and changes neither the visible
\* menu nor the active window.
C12_CreateCarriesVisibleModes ==
    [][CreateStep =>
          /\ last'.arg \in DOMAIN windowMenus' \ DOMAIN windowMenus
          /\ \A item \in {"sourceCodeModeMenuItem", "typewriterModeMenuItem"} :
                windowMenus'[last'.arg].menu.checked[item] = VisibleChecked(item)
          /\ appMenu' = appMenu
          /\ activeWindowId' = activeWindowId
          /\ \A id \in DOMAIN windowMenus : windowMenus'[id] = windowMenus[id]
      ]_vars

\* Window 2 has just been created while window 1 was active with typewriter
\* mode checked and source-code mode unchecked, and starts the same way.
C12_Witness ==
    /\ last.op = "create" /\ last.arg = 2 /\ last.err = "none"
    /\ activeWindowId = 1 /\ appMenu = MenuOfWindow(1)
    /\ windowMenus[1].menu.checked["typewriterModeMenuItem"]
    /\ ~windowMenus[1].menu.checked["sourceCodeModeMenuItem"]
    /\ windowMenus[2].menu.checked["typewriterModeMenuItem"]
    /\ ~windowMenus[2].menu.checked["sourceCodeModeMenuItem"]

\* --------------------------------------------------------------------- C13

SetterOps == {"lineEnding", "autoSave", "theme", "alwaysOnTop"}

\* C13: while no window is active (in particular after the active window's
\* menu was removed and before another window is activated) an indicator
\* setter finds no visible menu to act on (it fails or changes nothing), and
\* a window created then starts with source-code mode and typewriter mode
\* unchecked.
C13_NoActiveWindowNoVisibleMenu ==
    [][activeWindowId = NoWindow =>
          /\ last'.op \in SetterOps =>
                \/ last'.err # "none"
                \/ appMenu' = appMenu /\ windowMenus' = windowMenus
          /\ CreateStep =>
                /\ ~windowMenus'[last'.arg].menu.checked["sourceCodeModeMenuItem"]
                /\ ~windowMenus'[last'.arg].menu.checked["typewriterModeMenuItem"]
      ]_vars

\* --------------------------------------------------------------------- C14

\* C14: removeWindowMenu(w) removes w's entry from the map and leaves every
\* other entry as it was; the active window becomes none when it was w and is
\* unchanged otherwise; setActiveWindow for a window that has no entry (so
\* for w, until it is created again) fails and changes nothing.
C14_RemoveForgetsOnlyThatWindow ==
    [][/\ last'.op = "remove" =>
             /\ DOMAIN windowMenus' = DOMAIN windowMenus \ {last'.arg}
             /\ \A id \in DOMAIN windowMenus' : windowMenus'[id] = windowMenus[id]
             /\ activeWindowId' = IF activeWindowId = last'.arg
                                  THEN NoWindow
                                  ELSE activeWindowId
       /\ (last'.op = "activate" /\ last'.arg \notin DOMAIN windowMenus) =>
             /\ last'.err # "none"
             /\ activeWindowId' = activeWindowId
             /\ appMenu' = appMenu
             /\ windowMenus' = windowMenus
      ]_vars

\* The active window 1 has just been removed: no window is active, and
\* window 2 is left alone with the sidebar it had checked.
C14_Witness ==
    /\ last.op = "remove" /\ last.arg = 1
    /\ activeWindowId = NoWindow
    /\ appMenu.kind = "detached"
    /\ DOMAIN windowMenus = {2}
    /\ windowMenus[2].menu.checked["sideBarMenuItem"]

\* --------------------------------------------------------------------- C15

\* C15: in the tree addEditorMenu has just stored, the typewriter-mode and
\* focus-mode items are disabled when source-code mode was carried over as
\* checked, and are not disabled when it was carried over as unchecked.
C15_CreateCouplesSourceMode ==
    (last.op = "create" /\ last.err = "none") =>
        LET menu == windowMenus[last.arg].menu
        IN  IF menu.checked["sourceCodeModeMenuItem"]
            THEN /\ ~menu.enabled["typewriterModeMenuItem"]
                 /\ ~menu.enabled["focusModeMenuItem"]
            ELSE /\ menu.enabled["typewriterModeMenuItem"]
                 /\ menu.enabled["focusModeMenuItem"]

\* Window 2 has just been created while the visible menu, that of window 1,
\* had source-code mode checked: its typewriter-mode and focus-mode items are
\* disabled, those of window 1 are not.
C15_Witness ==
    /\ last.op = "create" /\ last.arg = 2 /\ last.err = "none"
    /\ activeWindowId = 1
    /\ windowMenus[1].menu.checked["sourceCodeModeMenuItem"]
    /\ windowMenus[1].menu.enabled["typewriterModeMenuItem"]
    /\ windowMenus[2].menu.checked["sourceCodeModeMenuItem"]
    /\ ~windowMenus[2].menu.enabled["typewriterModeMenuItem"]
    /\ ~windowMenus[2].menu.enabled["focusModeMenuItem"]

\* --------------------------------------------------------------------- C16

\* C16: a call of an indicator setter (line ending, auto-save, theme, always
\* on top) changes checked states of the visible menu only: the tree of every
\* window other than the one whose tree is visible, the set of windows that
\* have a tree, the active window and the recent list are as before, and in
\* the visible tree nothing but checked states differs.
C16_SetterTouchesVisibleMenuOnly ==
    [][last'.op \in SetterOps =>
          /\ DOMAIN windowMenus' = DOMAIN windowMenus
          /\ \A id \in DOMAIN windowMenus :
                IF appMenu.kind = "window" /\ appMenu.id = id
                THEN windowMenus'[id] =
                         [windowMenus[id] EXCEPT !.menu.checked = windowMenus'[id].menu.checked]
                ELSE windowMenus'[id] = windowMenus[id]
          /\ activeWindowId' = activeWindowId
          /\ file' = file /\ fs' = fs /\ nativeRecent' = nativeRecent
          /\ appMenu'.kind = appMenu.kind /\ appMenu'.id = appMenu.id
      ]_vars

\* Auto-save has just been checked in the visible menu, that of window 1,
\* and window 2's tree still has it unchecked.
C16_Witness ==
    /\ last.op = "autoSave" /\ last.value = "true" /\ last.err = "none"
    /\ activeWindowId = 1 /\ appMenu = MenuOfWindow(1)
    /\ DOMAIN windowMenus = {1, 2}
    /\ windowMenus[1].menu.checked["autoSaveMenuItem"]
    /\ ~last.checkedBefore["autoSaveMenuItem"]
    /\ ~windowMenus[2].menu.checked["autoSaveMenuItem"]

\* --------------------------------------------------------------------- C17

\* C17: after updateThemeMenu(theme) an item of the theme group is checked in
\* the visible menu exactly when its id is the theme: at most one is checked,
\* and none when no id matches.
C17_ThemeCheckedIffNamed ==
    (last.op = "theme" /\ last.err = "none") =>
        /\ \A id \in ThemeIds : CurrentMenu.checked[id] <=> (id = last.value)
        /\ Cardinality({id \in ThemeIds : CurrentMenu.checked[id]}) <= 1
        /\ last.value \notin ThemeIds => \A id \in ThemeIds : ~CurrentMenu.checked[id]

\* The theme has just been set to light in a menu that had dark checked: light
\* is checked and dark no longer is.
C17_Witness ==
    /\ last.op = "theme" /\ last.value = "light" /\ last.err = "none"
    /\ last.checkedBefore["dark"]
    /\ CurrentMenu.checked["light"]
    /\ ~CurrentMenu.checked["dark"]

\* --------------------------------------------------------------------- C18

\* C18: on macOS add and clear call the native recent-documents facility and
\* return: the persisted file is not written, and no window's tree and not
\* the visible menu is rebuilt or replaced. On Windows add registers the path
\* with the native facility and also puts it at the head of the explicit
\* list, rebuilds every tree with that list and writes the list when it
\* changed; clear empties the native list, the trees' lists and the file.
C18_MacNativeOnlyWindowsBoth ==
    [][/\ (platform = "darwin" /\ last'.op \in {"add", "clear"}) =>
             /\ last'.err = "none" /\ ~last'.wrote
             /\ file' = file
             /\ windowMenus' = windowMenus
             /\ appMenu' = appMenu
             /\ nativeRecent' = IF last'.op = "add"
                                THEN nativeRecent \cup {last'.arg}
                                ELSE {}
       /\ (platform = "win32" /\ last'.op = "add" /\ last'.err = "none") =>
             /\ last'.arg \in nativeRecent'
             /\ last'.newList # <<>> /\ last'.newList[1] = last'.arg
             /\ \A id \in DOMAIN windowMenus' : windowMenus'[id].menu.recent = last'.newList
             /\ IF last'.wrote
                THEN file' = JsonStringify(last'.newList)
                ELSE file' = file /\ last'.newList = last'.listBefore
       /\ (platform = "win32" /\ last'.op = "clear" /\ last'.err = "none") =>
             /\ nativeRecent' = {}
             /\ \A id \in DOMAIN windowMenus' : windowMenus'[id].menu.recent = <<>>
             /\ file' = JsonStringify(<<>>)
      ]_vars

\* On macOS path 13 has just been added: the native facility has it, the file
\* is the twelve-entry list without it, and so is the list of window 1's tree.
C18_Witness ==
    /\ platform = "darwin"
    /\ last.op = "add" /\ last.arg = MAX_RECENTLY_USED_DOCUMENTS + 1 /\ last.err = "none"
    /\ last.arg \in nativeRecent
    /\ file = JsonStringify(Descending(MAX_RECENTLY_USED_DOCUMENTS))
    /\ DOMAIN windowMenus = {1}
    /\ windowMenus[1].menu.recent = Descending(MAX_RECENTLY_USED_DOCUMENTS)

\* --------------------------------------------------------------------- C19

\* C19: after add, clear, addEditorMenu or a rebuild of all menus, a failed
\* persistence write included, with nothing deleted from the filesystem, all
\* stored trees were built from one recent list, and it is the list that
\* getRecentlyUsedDocuments returns from the persisted file.
C19_MenusShowPersistedList ==
    (last.op \in {"add", "clear", "create", "rebuild"} /\ fs = InitialFs) =>
        /\ \A id, other \in DOMAIN windowMenus :
              windowMenus[id].menu.recent = windowMenus[other].menu.recent
        /\ \A id \in DOMAIN windowMenus : windowMenus[id].menu.recent = CurrentList

\* --------------------------------------------------------------------- C20

\* A tree in the state addEditorMenu gives it when source-code mode is
\* carried over as checked.
Coupled(menu) ==
    /\ menu.checked["sourceCodeModeMenuItem"]
    /\ ~menu.enabled["typewriterModeMenuItem"]
    /\ ~menu.enabled["focusModeMenuItem"]

\* C20: a rebuild of all menus (by rebuildAllMenus, add or clear) leaves a
\* window whose tree has source-code mode checked and the typewriter-mode and
\* focus-mode items disabled with a tree in that same state.
C20_RebuildKeepsCoupling ==
    [][RebuildStep =>
          \A id \in DOMAIN windowMenus \cap DOMAIN windowMenus' :
              Coupled(windowMenus[id].menu) => Coupled(windowMenus'[id].menu)
      ]_vars

====
